---- MODULE Spec2Model ----
(***************************************************************************)
(* simple-kpc: before/after deltas of CPU performance counters around a    *)
(* block of work (src/simple_kpc.c, src/kpc_demo.c, src/example.c).        *)
(*                                                                         *)
(* Each library function (sk_init, sk_events_*, sk_start_measurement,      *)
(* sk_finish_measurement) is one action.  Its body is the composition, in  *)
(* program order, of the calls it makes through the kpc_* / kpep_*         *)
(* function pointers; every call records itself and its return code.       *)
(* The kperf / kperfdata frameworks and the kernel behind them are the     *)
(* environment; they are modelled from the header comments the sources     *)
(* carry for each entry point.                                             *)
(***************************************************************************)
EXTENDS Integers, Sequences, FiniteSets, TLC

(***************************************************************************)
(* Bounds of the model.                                                    *)
(***************************************************************************)
\* longest request list the modelled caller pushes (the code allows 32)
MaxEvents == 2
\* width of a hardware counter in the model (u64 in the code): values wrap
\* modulo 2^CounterBits
CounterBits == 1
\* configurable counters of the modelled CPU (4, 6 or 8 on real ones)
NumConfigurable == 1
\* calls of sk_finish_measurement a misusing caller makes on one session
MaxFinishes == 2

(***************************************************************************)
(* Program constants.                                                      *)
(***************************************************************************)
KPC_MAX_COUNTERS == 32
\* fixed counters of the modelled CPU ("ARMV7: FIXED: 1")
NumFixed == 1

KPEP_CONFIG_ERROR_NONE == 0
KPEP_CONFIG_ERROR_INVALID_ARGUMENT == 1
KPEP_CONFIG_ERROR_DB_NOT_FOUND == 7
KPEP_CONFIG_ERROR_EVENT_NOT_FOUND == 11
KPEP_CONFIG_ERROR_CONFLICTING_EVENTS == 12

NULL == "NULL"
Threads == {"t1", "t2"}
Main == "t1"

Mod == 2 ^ CounterBits
Slots == 0 .. (KPC_MAX_COUNTERS - 1)
ZeroArray == [s \in Slots |-> 0]

\* u64 subtraction: the difference modulo the counter width
U64SubSigned(a, b) == a - b
U64Sub(a, b) == (a - b) % Mod

(***************************************************************************)
(* The event database of the running CPU (kperfdata.framework).            *)
(***************************************************************************)
\* the events the database knows
Catalog == {"FIXED_CYCLES", "INST_BRANCH"}
\* the keys a caller may ask for; the last one is in no database
Keys == {"FIXED_CYCLES", "INST_BRANCH", "NOT_A_REAL_EVENT"}
\* the display name the caller gives each key (example.c)
Requests ==
    { [name |-> "cycles", key |-> "FIXED_CYCLES"],
      [name |-> "branches", key |-> "INST_BRANCH"],
      [name |-> "bogus", key |-> "NOT_A_REAL_EVENT"] }

\* kpep_event.is_fixed
IsFixed(ev) == ev = "FIXED_CYCLES"
ClassOf(ev) == IF IsFixed(ev) THEN "FIXED" ELSE "CONFIGURABLE"
\* the register value that selects a configurable event
RegOf(ev) == IF ev = "INST_BRANCH" THEN 1 ELSE 0

RECURSIVE CountIf(_, _, _)
\* number of positions 1..n of sequence s whose entry is in set S
CountIf(s, n, S) ==
    IF n = 0 THEN 0
    ELSE CountIf(s, n - 1, S) + (IF s[n] \in S THEN 1 ELSE 0)

Configurables(evs) == CountIf(evs, Len(evs), {ev \in Catalog : ~IsFixed(ev)})

\* kpep_db_create(NULL, &db): opens the database of the current CPU
KpepDbCreate(ok) ==
    IF ok THEN [rc |-> KPEP_CONFIG_ERROR_NONE, db |-> "db"]
    ELSE [rc |-> KPEP_CONFIG_ERROR_DB_NOT_FOUND, db |-> NULL]

\* kpep_db_event(db, name, &ev): one event by name; ev stays NULL on failure
KpepDbEvent(db, name) ==
    IF db = NULL THEN [rc |-> KPEP_CONFIG_ERROR_INVALID_ARGUMENT, ev |-> NULL]
    ELSE IF name \in Catalog THEN [rc |-> KPEP_CONFIG_ERROR_NONE, ev |-> name]
    ELSE [rc |-> KPEP_CONFIG_ERROR_EVENT_NOT_FOUND, ev |-> NULL]

\* a void *kpep_config that points to no configuration
NullConfig == [null |-> TRUE, forced |-> FALSE, events |-> << >>]

\* kpep_config_create(db, &cfg): cfg stays NULL on failure
KpepConfigCreate(db) ==
    IF db = NULL
    THEN [rc |-> KPEP_CONFIG_ERROR_INVALID_ARGUMENT, cfg |-> NullConfig]
    ELSE [rc |-> KPEP_CONFIG_ERROR_NONE,
          cfg |-> [null |-> FALSE, forced |-> FALSE, events |-> << >>]]

\* kpep_config_force_counters(cfg)
KpepConfigForceCounters(cfg) ==
    IF cfg.null THEN [rc |-> KPEP_CONFIG_ERROR_INVALID_ARGUMENT, cfg |-> cfg]
    ELSE [rc |-> KPEP_CONFIG_ERROR_NONE, cfg |-> [cfg EXCEPT !.forced = TRUE]]

\* kpep_config_add_event(cfg, &ev, 0, NULL): a fixed event takes its own
\* counter, a configurable event the next free configurable counter; an
\* event that finds no counter is refused and the configuration unchanged
KpepConfigAddEvent(cfg, ev) ==
    IF cfg.null \/ ev = NULL
    THEN [rc |-> KPEP_CONFIG_ERROR_INVALID_ARGUMENT, cfg |-> cfg]
    ELSE IF (IsFixed(ev) /\ \E j \in 1 .. Len(cfg.events) : cfg.events[j] = ev)
            \/ (~IsFixed(ev) /\ Configurables(cfg.events) >= NumConfigurable)
    THEN [rc |-> KPEP_CONFIG_ERROR_CONFLICTING_EVENTS, cfg |-> cfg]
    ELSE [rc |-> KPEP_CONFIG_ERROR_NONE,
          cfg |-> [cfg EXCEPT !.events = Append(@, ev)]]

\* kpep_config_kpc_classes(cfg, &classes): the classes the events need
KpepConfigKpcClasses(cfg, classes) ==
    IF cfg.null
    THEN [rc |-> KPEP_CONFIG_ERROR_INVALID_ARGUMENT, classes |-> classes]
    ELSE [rc |-> KPEP_CONFIG_ERROR_NONE,
          classes |-> {ClassOf(cfg.events[j]) : j \in 1 .. Len(cfg.events)}]

\* the counter slot of the j-th event of a configuration
SlotOf(evs, j) ==
    IF IsFixed(evs[j]) THEN 0
    ELSE NumFixed + CountIf(evs, j - 1, {ev \in Catalog : ~IsFixed(ev)})

\* kpep_config_kpc_map(cfg, buf, size): entry j of buf receives the slot of
\* the j-th event of the configuration, in the numbering of a CPU whose
\* configurable counters start at slot first; the rest of buf is left alone
KpepConfigKpcMap(cfg, buf, first) ==
    IF cfg.null THEN [rc |-> KPEP_CONFIG_ERROR_INVALID_ARGUMENT, buf |-> buf]
    ELSE [rc |-> KPEP_CONFIG_ERROR_NONE,
          buf |-> [s \in Slots |->
                     IF s >= Len(cfg.events) THEN buf[s]
                     ELSE IF IsFixed(cfg.events[s + 1])
                     THEN SlotOf(cfg.events, s + 1)
                     ELSE SlotOf(cfg.events, s + 1) - NumFixed + first]]

\* kpep_config_kpc(cfg, buf, size): the register values of the configurable
\* events, in counter order
KpepConfigKpc(cfg, buf) ==
    IF cfg.null THEN [rc |-> KPEP_CONFIG_ERROR_INVALID_ARGUMENT, buf |-> buf]
    ELSE [rc |-> KPEP_CONFIG_ERROR_NONE,
          buf |-> [s \in Slots |->
                     IF \E j \in 1 .. Len(cfg.events) :
                            ~IsFixed(cfg.events[j])
                            /\ SlotOf(cfg.events, j) = NumFixed + s
                     THEN RegOf(cfg.events[CHOOSE j \in 1 .. Len(cfg.events) :
                                    ~IsFixed(cfg.events[j])
                                    /\ SlotOf(cfg.events, j) = NumFixed + s])
                     ELSE buf[s]]]

(***************************************************************************)
(* The kernel's counter interface (kperf.framework).                       *)
(***************************************************************************)
\* the counters the CPU has, fixed ones first
LiveSlots == 0 .. (NumFixed + NumConfigurable - 1)
SlotClass(s) == IF s < NumFixed THEN "FIXED" ELSE "CONFIGURABLE"
\* the configuration registers the CPU has, one per configurable counter
ConfigRegs == 0 .. (NumConfigurable - 1)

\* kpc_force_all_ctrs_set(val): 1 acquires the counters for the task, 0
\* releases them; refused while another owner holds them
KpcForceAllCtrsSet(cur, val) ==
    IF cur = "other" THEN [rc |-> 1, owner |-> cur]
    ELSE [rc |-> 0, owner |-> IF val = 1 THEN "task" ELSE "none"]

\* kpc_set_config(classes, config): programs the configuration registers
KpcSetConfig(ok, cur, regs) ==
    IF ok THEN [rc |-> 0, config |-> [s \in ConfigRegs |-> regs[s]]]
    ELSE [rc |-> 1, config |-> cur]

\* kpc_set_counting(classes) and kpc_set_thread_counting(classes): the
\* classes that count from now on; 0 shuts counting down and cannot fail
KpcSetCounting(ok, cur, classes) ==
    IF ok \/ classes = {} THEN [rc |-> 0, classes |-> classes]
    ELSE [rc |-> 1, classes |-> cur]

\* kpc_get_thread_counters(0, buf_count, buf): the calling thread's
\* accumulations, one entry per counter of the CPU
KpcGetThreadCounters(acc, buf) ==
    [rc |-> 0, buf |-> [s \in Slots |-> IF s \in LiveSlots THEN acc[s] ELSE buf[s]]]

(***************************************************************************)
(* State.                                                                  *)
(***************************************************************************)
VARIABLES
    cpu,             \* "listed": a CPU of the table at KPC_MAX_COUNTERS, or
                     \* "wide": one whose counters do not fit that many
    refuses,         \* the kpc_* calls the kernel refuses this process
    initialized,     \* static bool initialized
    impl,            \* the function pointers that are bound (*symbol->impl)
    dl,              \* how often the process holds each framework loaded
    lib,             \* kpc_demo.c: lib_inited, lib_has_err, lib_err_msg, handles
    proc,            \* "running", "exited" (exit(1)), "aborted" (assert)
    exit_msg,        \* what the process printed before it ended
    pc,              \* where each thread's caller is
    e,               \* each thread's sk_events
    m,               \* each thread's sk_in_progress_measurement
    report,          \* the lines sk_finish_measurement printed
    owner,           \* who holds force_all_ctrs: "none", "task", "other"
    counting,        \* classes counting system-wide (kpc.counting)
    thread_counting, \* classes counting per thread (kpc.thread_counting)
    kpc_config,      \* the programmed configuration registers
    hw,              \* each thread's counter accumulations
    calls,           \* the calls of the thread's last library function
    failed,          \* those of them that returned an error
    ghost            \* history: what the round's session was given

resvars == <<impl, dl, lib>>
libvars == <<initialized, proc, exit_msg, resvars>>
kernvars == <<cpu, refuses, owner, counting, thread_counting, kpc_config, hw>>
logvars == <<calls, failed, ghost>>
vars == <<libvars, pc, e, m, report, kernvars, logvars>>

NoMsg == [kind |-> "none", name |-> NULL, index |-> 0]
NoList == [human_readable_names |-> << >>, internal_names |-> << >>, count |-> 0]
NoSession == [classes |-> {}, counter_map |-> ZeroArray, regs |-> ZeroArray,
              counters |-> ZeroArray]
NoGhost == [names |-> << >>, map |-> << >>,
            before |-> [s \in LiveSlots |-> 0],
            after |-> [s \in LiveSlots |-> 0], finishes |-> 0]

\* the calls that program the counters
KpcSetCalls == {"kpc_set_config", "kpc_set_counting", "kpc_set_thread_counting"}

\* the two frameworks (KPERF_PATH, KPERFDATA_PATH)
Modules == {"kperf", "kperfdata"}
\* static lib_inited = false, lib_has_err = false, handles NULL
NoLib == [inited |-> FALSE, has_err |-> FALSE, err_msg |-> "",
          handle_kperf |-> NULL, handle_kperfdata |-> NULL]

\* the state a process starts in, its threads at position start
InitState(start) ==
    /\ refuses \in SUBSET (KpcSetCalls \cup {"kpc_force_all_ctrs_get"})
    /\ initialized = FALSE
    /\ impl = {}
    /\ dl = [mod \in Modules |-> 0]
    /\ lib = NoLib
    /\ proc = "running"
    /\ exit_msg = NoMsg
    /\ pc = [t \in Threads |-> start]
    /\ e = [t \in Threads |-> NoList]
    /\ m = [t \in Threads |-> NoSession]
    /\ report = [t \in Threads |-> << >>]
    /\ owner \in {"none", "other"}
    /\ counting = {}
    /\ thread_counting = [t \in Threads |-> {}]
    /\ kpc_config = [s \in ConfigRegs |-> 0]
    /\ hw = [t \in Threads |-> [s \in LiveSlots |-> 0]]
    /\ calls = [t \in Threads |-> << >>]
    /\ failed = [t \in Threads |-> {}]
    /\ ghost = [t \in Threads |-> NoGhost]

\* a program that uses simple_kpc.c, as example.c does, on a listed CPU
Init == InitState("main") /\ cpu = "listed"
\* the same program on a CPU with counters beyond slot KPC_MAX_COUNTERS - 1
InitWide == InitState("main") /\ cpu = "wide"

Set(f, t, v) == [f EXCEPT ![t] = v]

(***************************************************************************)
(* Calls.  A frame is what a library function works on while it runs: its  *)
(* locals, the session it fills, the kernel state its calls read and       *)
(* write, and the record of the calls made so far.                         *)
(***************************************************************************)
Frame(t) ==
    [db |-> NULL, cfg |-> NullConfig, event |-> NULL, notfound |-> -1,
     classes |-> m[t].classes, counter_map |-> m[t].counter_map,
     regs |-> m[t].regs, counters |-> m[t].counters,
     owner |-> owner, counting |-> counting,
     thread_counting |-> thread_counting[t], config |-> kpc_config,
     acc |-> hw[t], calls |-> << >>, failed |-> {}]

\* call c was made and returned rc
Returned(fr, c, rc) ==
    [fr EXCEPT !.calls = Append(@, c),
               !.failed = IF rc = 0 THEN @ ELSE @ \cup {c}]

CallDbCreate(fr, ok) ==
    LET r == KpepDbCreate(ok) IN
    [Returned(fr, "kpep_db_create", r.rc) EXCEPT !.db = r.db]
CallConfigCreate(fr) ==
    LET r == KpepConfigCreate(fr.db) IN
    [Returned(fr, "kpep_config_create", r.rc) EXCEPT !.cfg = r.cfg]
CallForceCounters(fr) ==
    LET r == KpepConfigForceCounters(fr.cfg) IN
    [Returned(fr, "kpep_config_force_counters", r.rc) EXCEPT !.cfg = r.cfg]
CallDbEvent(fr, name) ==
    LET r == KpepDbEvent(fr.db, name) IN
    [Returned(fr, "kpep_db_event", r.rc) EXCEPT !.event = r.ev]
CallAddEvent(fr) ==
    LET r == KpepConfigAddEvent(fr.cfg, fr.event) IN
    [Returned(fr, "kpep_config_add_event", r.rc) EXCEPT !.cfg = r.cfg]
CallKpcClasses(fr) ==
    LET r == KpepConfigKpcClasses(fr.cfg, fr.classes) IN
    [Returned(fr, "kpep_config_kpc_classes", r.rc) EXCEPT !.classes = r.classes]
\* the slot of the first configurable counter: on a wide CPU the
\* configurable counters lie beyond the KPC_MAX_COUNTERS slots the library
\* has room for
FirstConfigurable == IF cpu = "wide" THEN KPC_MAX_COUNTERS ELSE NumFixed
CallKpcMap(fr) ==
    LET r == KpepConfigKpcMap(fr.cfg, fr.counter_map, FirstConfigurable) IN
    [Returned(fr, "kpep_config_kpc_map", r.rc) EXCEPT !.counter_map = r.buf]
CallKpc(fr) ==
    LET r == KpepConfigKpc(fr.cfg, fr.regs) IN
    [Returned(fr, "kpep_config_kpc", r.rc) EXCEPT !.regs = r.buf]
CallConfigFree(fr) == Returned(fr, "kpep_config_free", 0)
CallDbFree(fr) == Returned(fr, "kpep_db_free", 0)
CallForceAllCtrsSet(fr, val) ==
    LET r == KpcForceAllCtrsSet(fr.owner, val) IN
    [Returned(fr, "kpc_force_all_ctrs_set", r.rc) EXCEPT !.owner = r.owner]
CallSetConfig(fr) ==
    LET r == KpcSetConfig("kpc_set_config" \notin refuses, fr.config, fr.regs) IN
    [Returned(fr, "kpc_set_config", r.rc) EXCEPT !.config = r.config]
CallSetCounting(fr, classes) ==
    LET r == KpcSetCounting("kpc_set_counting" \notin refuses,
                            fr.counting, classes) IN
    [Returned(fr, "kpc_set_counting", r.rc) EXCEPT !.counting = r.classes]
CallSetThreadCounting(fr, classes) ==
    LET r == KpcSetCounting("kpc_set_thread_counting" \notin refuses,
                            fr.thread_counting, classes) IN
    [Returned(fr, "kpc_set_thread_counting", r.rc)
        EXCEPT !.thread_counting = r.classes]
CallGetThreadCounters(fr) ==
    LET r == KpcGetThreadCounters(fr.acc, fr.counters) IN
    [Returned(fr, "kpc_get_thread_counters", r.rc) EXCEPT !.counters = r.buf]
\* calloc, printf, setlocale, exit, free
LibCall(fr, c) == Returned(fr, c, 0)

(***************************************************************************)
(* sk_init                                                                 *)
(***************************************************************************)
\* the function pointers each framework has to supply
KPERF_SYMBOLS ==
    << "kpc_set_counting", "kpc_set_thread_counting", "kpc_set_config",
       "kpc_get_thread_counters", "kpc_force_all_ctrs_set",
       "kpc_force_all_ctrs_get" >>
KPERFDATA_SYMBOLS ==
    << "kpep_config_create", "kpep_config_free", "kpep_config_add_event",
       "kpep_config_force_counters", "kpep_config_kpc",
       "kpep_config_kpc_classes", "kpep_config_kpc_map", "kpep_db_create",
       "kpep_db_free", "kpep_db_events_count", "kpep_db_events",
       "kpep_db_event" >>
Range(seq) == {seq[k] : k \in DOMAIN seq}
AllSymbols == Range(KPERF_SYMBOLS) \cup Range(KPERFDATA_SYMBOLS)
\* position of symbol s in a table, and the symbols ahead of it
IndexOf(seq, s) == CHOOSE k \in DOMAIN seq : seq[k] = s
Before(seq, s) == {seq[k] : k \in 1 .. (IndexOf(seq, s) - 1)}
\* n calls of c in a row
Repeat(c, n) == [k \in 1 .. n |-> c]

\* what the environment lets a resolver find: the frameworks that load and
\* the symbol that is missing from them (if any)
InitOutcomes ==
    [modules : SUBSET Modules, missing : AllSymbols \cup {NULL}]

\* a privilege check that lets everybody through
ProbeIgnored == FALSE
\* kpc_force_all_ctrs_get(NULL) != 0: the kernel refuses a process that is
\* not root
ProbeDenied == "kpc_force_all_ctrs_get" \in refuses

\* sk_init() past its guard: dlopen of both frameworks, dlsym of every
\* symbol, then the privilege check; every failure ends in exit(1)
SkInitResolve(env) ==
    LET opens == << "dlopen", "dlopen" >>
        stop == << "fprintf", "exit" >>
        nk == Len(KPERF_SYMBOLS)
        nd == Len(KPERFDATA_SYMBOLS)
    IN IF "kperf" \notin env.modules
       THEN [kind |-> "no_kperf", loaded |-> {}, bound |-> {},
             calls |-> << "dlopen" >> \o stop, failed |-> {"dlopen"}]
       ELSE IF "kperfdata" \notin env.modules
       THEN [kind |-> "no_kperfdata", loaded |-> {"kperf"}, bound |-> {},
             calls |-> opens \o stop, failed |-> {"dlopen"}]
       ELSE IF env.missing \in Range(KPERF_SYMBOLS)
       THEN [kind |-> "missing_symbol", loaded |-> Modules,
             bound |-> Before(KPERF_SYMBOLS, env.missing),
             calls |-> opens
                 \o Repeat("dlsym", IndexOf(KPERF_SYMBOLS, env.missing))
                 \o stop,
             failed |-> {"dlsym"}]
       ELSE IF env.missing \in Range(KPERFDATA_SYMBOLS)
       THEN [kind |-> "missing_symbol", loaded |-> Modules,
             bound |-> Range(KPERF_SYMBOLS)
                         \cup Before(KPERFDATA_SYMBOLS, env.missing),
             calls |-> opens
                 \o Repeat("dlsym", nk + IndexOf(KPERFDATA_SYMBOLS, env.missing))
                 \o stop,
             failed |-> {"dlsym"}]
       ELSE IF ProbeDenied
       THEN [kind |-> "permission_denied", loaded |-> Modules,
             bound |-> AllSymbols,
             calls |-> opens \o Repeat("dlsym", nk + nd)
                 \o << "kpc_force_all_ctrs_get" >> \o stop,
             failed |-> {"kpc_force_all_ctrs_get"}]
       ELSE [kind |-> "ok", loaded |-> Modules, bound |-> AllSymbols,
             calls |-> opens \o Repeat("dlsym", nk + nd)
                 \o << "kpc_force_all_ctrs_get" >>,
             failed |-> {}]

\* an sk_init without its guard
SkInitAlways(init, env) == SkInitResolve(env)
\* if (initialized) return;
SkInitRun(init, env) ==
    IF init
    THEN [kind |-> "cached", loaded |-> {}, bound |-> {}, calls |-> << >>,
          failed |-> {}]
    ELSE SkInitResolve(env)

\* sk_init(): returns at once when initialized; exit(1) when a framework
\* does not load, a symbol is missing or kpc_force_all_ctrs_get fails
SkInit(t) ==
    /\ proc = "running" /\ pc[t] = "main"
    /\ \E env \in InitOutcomes :
       \E r \in {SkInitRun(initialized, env)} :
         /\ impl' = impl \cup r.bound
         /\ dl' = [mod \in Modules |->
                      dl[mod] + (IF mod \in r.loaded THEN 1 ELSE 0)]
         /\ calls' = Set(calls, t, r.calls)
         /\ failed' = Set(failed, t, r.failed)
         /\ IF r.kind = "cached"
            THEN UNCHANGED <<initialized, proc, exit_msg>>
            ELSE IF r.kind = "ok"
            THEN initialized' = TRUE /\ UNCHANGED <<proc, exit_msg>>
            ELSE /\ proc' = "exited"
                 /\ exit_msg' = [kind |-> r.kind, name |-> env.missing,
                                 index |-> 0]
                 /\ UNCHANGED initialized
    /\ UNCHANGED <<lib, pc, e, m, report, kernvars, ghost>>

(***************************************************************************)
(* sk_events                                                               *)
(***************************************************************************)
\* sk_events_create(): two arrays of KPC_MAX_COUNTERS names, count 0
SkEventsCreate(t) ==
    /\ proc = "running" /\ pc[t] = "main"
    /\ e' = Set(e, t, NoList)
    /\ calls' = Set(calls, t, << "malloc", "malloc", "malloc" >>)
    /\ failed' = Set(failed, t, {})
    /\ pc' = Set(pc, t, "building")
    /\ UNCHANGED <<libvars, m, report, kernvars, ghost>>

\* the list after sk_events_push(e, human_readable_name, internal_name)
Pushed(l, r) ==
    [human_readable_names |-> Append(l.human_readable_names, r.name),
     internal_names |-> Append(l.internal_names, r.key),
     count |-> l.count + 1]

SkEventsPush(t) ==
    /\ proc = "running" /\ pc[t] = "building"
    /\ e[t].count < MaxEvents
    /\ \E r \in Requests :
         /\ e' = Set(e, t, Pushed(e[t], r))
         /\ ghost' = [ghost EXCEPT ![t].names = Append(@, r.name)]
    /\ calls' = Set(calls, t, << >>)
    /\ failed' = Set(failed, t, {})
    /\ UNCHANGED <<libvars, pc, m, report, kernvars>>

\* sk_events_push on a list that already holds MaxEvents entries, by a
\* caller that keeps pushing the event it pushed last.  The function does
\* not compare count with KPC_MAX_COUNTERS: with count = KPC_MAX_COUNTERS it
\* stores both names past the end of the arrays sk_events_create allocated,
\* which either faults or lands in whatever memory follows them, and then
\* increments count
SkEventsPushMore(t) ==
    /\ proc = "running" /\ pc[t] = "building"
    /\ e[t].count >= MaxEvents /\ e[t].count <= KPC_MAX_COUNTERS
    /\ IF e[t].count < KPC_MAX_COUNTERS
       THEN /\ e' = Set(e, t, Pushed(e[t],
                        [name |-> e[t].human_readable_names[e[t].count],
                         key |-> e[t].internal_names[e[t].count]]))
            /\ ghost' = [ghost EXCEPT ![t].names =
                           Append(@, e[t].human_readable_names[e[t].count])]
            /\ UNCHANGED proc
       ELSE \E outcome \in {"fault", "overwrites"} :
              IF outcome = "fault"
              THEN /\ proc' = "crashed"
                   /\ UNCHANGED <<e, ghost>>
              ELSE /\ e' = [e EXCEPT ![t].count = @ + 1]
                   /\ UNCHANGED <<proc, ghost>>
    /\ calls' = Set(calls, t, << >>)
    /\ failed' = Set(failed, t, {})
    /\ UNCHANGED <<initialized, exit_msg, resvars, pc, m, report, kernvars>>

\* sk_events_push on a list that a session in progress points to
\* (m->events = e): the caller pushes between sk_start_measurement and
\* sk_finish_measurement
SkEventsPushLate(t) ==
    /\ proc = "running" /\ pc[t] \in {"armed", "measured"}
    /\ e[t].count < MaxEvents
    /\ \E r \in Requests : e' = Set(e, t, Pushed(e[t], r))
    /\ calls' = Set(calls, t, << >>)
    /\ failed' = Set(failed, t, {})
    /\ UNCHANGED <<libvars, pc, m, report, kernvars, ghost>>

\* sk_events_destroy(e): the round is over; the freed list and session and
\* the history of the round are forgotten
SkEventsDestroy(t) ==
    /\ proc = "running" /\ pc[t] = "finished"
    /\ e' = Set(e, t, NoList)
    /\ m' = Set(m, t, NoSession)
    /\ report' = Set(report, t, << >>)
    /\ calls' = Set(calls, t, << "free", "free", "free" >>)
    /\ failed' = Set(failed, t, {})
    /\ ghost' = Set(ghost, t, NoGhost)
    /\ pc' = Set(pc, t, "main")
    /\ UNCHANGED <<libvars, kernvars>>

(***************************************************************************)
(* sk_start_measurement                                                    *)
(***************************************************************************)
RECURSIVE BuildLoopContinue(_, _, _)
\* a loop that goes on to the next request when an event is not found
BuildLoopContinue(fr, l, idx) ==
    IF idx >= l.count THEN fr
    ELSE LET f1 == CallDbEvent(fr, l.internal_names[idx + 1]) IN
         IF f1.event = NULL THEN BuildLoopContinue(f1, l, idx + 1)
         ELSE BuildLoopContinue(CallAddEvent(f1), l, idx + 1)

RECURSIVE BuildLoop(_, _, _)
\* for (i = 0; i < m->events->count; i++) {
\*     kpep_db_event(kpep_db, internal_name, &event);
\*     if (event == NULL) { printf("Cannot find event ..."); exit(1); }
\*     kpep_config_add_event(kpep_config, &event, 0, NULL);  }
BuildLoop(fr, l, idx) ==
    IF idx >= l.count THEN fr
    ELSE LET f1 == CallDbEvent(fr, l.internal_names[idx + 1]) IN
         IF f1.event = NULL
         THEN [LibCall(LibCall(f1, "printf"), "exit") EXCEPT !.notfound = idx]
         ELSE BuildLoop(CallAddEvent(f1), l, idx + 1)

\* a build that reserves the counters only after the events were added
StartBuildForceLate(fr, l, okdb) ==
    LET f1 == CallDbCreate(LibCall(fr, "calloc"), okdb)
        f2 == CallConfigCreate(f1)
        f3 == BuildLoop(f2, l, 0)
        f4 == IF f3.notfound >= 0 THEN f3 ELSE CallForceCounters(f3)
    IN IF f4.notfound >= 0 THEN f4
       ELSE CallDbFree(CallConfigFree(CallKpc(CallKpcMap(CallKpcClasses(f4)))))

\* the first half of sk_start_measurement: the session's classes, counter
\* map and registers from the event database, or exit(1)
StartBuild(fr, l, okdb) ==
    LET f1 == CallDbCreate(LibCall(fr, "calloc"), okdb)
        f2 == CallConfigCreate(f1)
        f3 == CallForceCounters(f2)
        f4 == BuildLoop(f3, l, 0)
    IN IF f4.notfound >= 0 THEN f4
       ELSE CallDbFree(CallConfigFree(CallKpc(CallKpcMap(CallKpcClasses(f4)))))

\* an arming that reads the before snapshot before thread counting is on
StartArmSnapshotEarly(fr) ==
    LET f1 == CallForceAllCtrsSet(fr, 1)
        f2 == CallSetConfig(f1)
        f3 == CallSetCounting(f2, f2.classes)
        f4 == CallGetThreadCounters(f3)
    IN CallSetThreadCounting(f4, f4.classes)

\* the second half of sk_start_measurement:
\*     kpc_force_all_ctrs_set(1); kpc_set_config(m->classes, m->regs);
\*     kpc_set_counting(m->classes); kpc_set_thread_counting(m->classes);
\*     kpc_get_thread_counters(0, KPC_MAX_COUNTERS, m->counters); return m;
StartArm(fr) ==
    LET f1 == CallForceAllCtrsSet(fr, 1)
        f2 == CallSetConfig(f1)
        f3 == CallSetCounting(f2, f2.classes)
        f4 == CallSetThreadCounting(f3, f3.classes)
    IN CallGetThreadCounters(f4)

\* sk_start_measurement past its assert; start_measurement of kpc_demo.c
StartBody(t) ==
            \E okdb \in BOOLEAN :
            \E b \in {StartBuild(Frame(t), e[t], okdb)} :
            IF b.notfound >= 0
            THEN /\ proc' = "exited"
                 /\ exit_msg' =
                      [kind |-> "EventNotFound",
                       name |-> e[t].human_readable_names[b.notfound + 1],
                       index |-> b.notfound]
                 /\ calls' = Set(calls, t, b.calls)
                 /\ failed' = Set(failed, t, b.failed)
                 /\ UNCHANGED <<pc, m, kernvars, ghost>>
            ELSE \E a \in {StartArm(b)} :
                 /\ m' = Set(m, t, [classes |-> a.classes,
                                    counter_map |-> a.counter_map,
                                    regs |-> a.regs,
                                    counters |-> a.counters])
                 /\ owner' = a.owner
                 /\ counting' = a.counting
                 /\ thread_counting' = Set(thread_counting, t, a.thread_counting)
                 /\ kpc_config' = a.config
                 /\ calls' = Set(calls, t, a.calls)
                 /\ failed' = Set(failed, t, a.failed)
                 /\ ghost' = [ghost EXCEPT
                       ![t].map = [k \in 1 .. e[t].count |-> b.counter_map[k - 1]],
                       ![t].before = hw[t]]
                 /\ pc' = Set(pc, t, "armed")
                 /\ UNCHANGED <<proc, exit_msg, cpu, refuses, hw>>

SkStartMeasurement(t) ==
    /\ proc = "running" /\ pc[t] = "building"
    /\ IF ~initialized
       THEN \* assert(initialized)
            /\ proc' = "aborted"
            /\ exit_msg' = [kind |-> "assert", name |-> NULL, index |-> 0]
            /\ UNCHANGED <<pc, m, kernvars, logvars>>
       ELSE StartBody(t)
    /\ UNCHANGED <<initialized, resvars, e, report>>

(***************************************************************************)
(* The caller's measured work.                                             *)
(***************************************************************************)
\* whether counter s of thread t is counting
Counts(t, s) ==
    /\ SlotClass(s) \in counting
    /\ SlotClass(s) \in thread_counting[t]
    /\ (s >= NumFixed => kpc_config[s - NumFixed] # 0)

\* your_code_here(): every counting counter advances, wrapping at its width
Work(t) ==
    /\ proc = "running" /\ pc[t] = "armed"
    /\ \E d \in [{s \in LiveSlots : Counts(t, s)} -> 0 .. (Mod - 1)] :
         hw' = Set(hw, t, [s \in LiveSlots |->
                   IF s \in DOMAIN d
                   THEN (hw[t][s] + d[s]) % Mod ELSE hw[t][s]])
    /\ pc' = Set(pc, t, "measured")
    /\ UNCHANGED <<libvars, e, m, report, cpu, refuses, owner, counting,
                   thread_counting, kpc_config, logvars>>

(***************************************************************************)
(* sk_finish_measurement                                                   *)
(***************************************************************************)
\* a finish that stops counting before it reads the after snapshot
FinishCallsSnapshotLate(fr) ==
    LET f1 == CallSetCounting(fr, {})
        f2 == CallGetThreadCounters(f1)
    IN CallForceAllCtrsSet(f2, 0)

\* a finish that releases the counters before it stops counting
FinishCallsReleaseFirst(fr) ==
    LET f1 == CallGetThreadCounters(fr)
        f2 == CallForceAllCtrsSet(f1, 0)
    IN CallSetCounting(f2, {})

\* a finish that does not release the counters
FinishCallsKept(fr) ==
    LET f1 == CallGetThreadCounters(fr)
    IN CallSetCounting(f1, {})

\* u64 counters_after[KPC_MAX_COUNTERS] = { 0 };
\* kpc_get_thread_counters(0, KPC_MAX_COUNTERS, counters_after);
\* kpc_set_counting(0); kpc_force_all_ctrs_set(0);
FinishCalls(fr) ==
    LET f1 == CallGetThreadCounters(fr)
        f2 == CallSetCounting(f1, {})
    IN CallForceAllCtrsSet(f2, 0)

\* a report that prints the lines in the opposite order
ReportReversed(l, sess, after) ==
    [k \in 1 .. l.count |->
        [name |-> l.human_readable_names[l.count + 1 - k],
         diff |-> U64Sub(after[sess.counter_map[l.count - k]],
                         sess.counters[sess.counter_map[l.count - k]])]]

\* for (i = 0; i < m->events->count; i++) {
\*     name = m->events->human_readable_names[i]; idx = m->counter_map[i];
\*     diff = counters_after[idx] - m->counters[idx]; printf(...);  }
ReportOf(l, sess, after) ==
    [k \in 1 .. l.count |->
        [name |-> l.human_readable_names[k],
         diff |-> U64Sub(after[sess.counter_map[k - 1]],
                         sess.counters[sess.counter_map[k - 1]])]]

\* the lines whose idx = m->counter_map[i] is not an index of the two
\* snapshot arrays counters_after and m->counters
OutOfBuffers(l, sess) ==
    {k \in 1 .. l.count : sess.counter_map[k - 1] \notin Slots}
\* the session with those entries of the map replaced by 0
Clamped(sess) ==
    [sess EXCEPT !.counter_map =
        [s \in Slots |-> IF sess.counter_map[s] \in Slots
                         THEN sess.counter_map[s] ELSE 0]]
\* the reports the loop can print: a line whose idx is in the arrays is as
\* ReportOf has it, a line whose idx is outside of them reads whatever lies
\* behind the arrays and may show any value
Reports(l, sess, after) ==
    LET oob == OutOfBuffers(l, sess)
        rep == ReportOf(l, Clamped(sess), after)
    IN { [k \in 1 .. l.count |->
            IF k \in oob THEN [name |-> rep[k].name, diff |-> g[k]]
            ELSE rep[k]] : g \in [oob -> 0 .. (Mod - 1)] }

\* the body of sk_finish_measurement on session m[t]; a read outside of the
\* snapshot arrays either faults, in the loop, or yields some value
FinishBody(t) ==
    \E f \in {FinishCalls([Frame(t) EXCEPT !.counters = ZeroArray])} :
    /\ owner' = f.owner
    /\ counting' = f.counting
    /\ thread_counting' = Set(thread_counting, t, f.thread_counting)
    /\ kpc_config' = f.config
    /\ failed' = Set(failed, t, f.failed)
    /\ \E outcome \in IF OutOfBuffers(e[t], m[t]) = {}
                       THEN {"reads"} ELSE {"reads", "fault"} :
         IF outcome = "fault"
         THEN /\ proc' = "crashed"
              /\ calls' = Set(calls, t,
                              LibCall(LibCall(f, "printf"), "setlocale").calls)
              /\ ghost' = [ghost EXCEPT
                             ![t].after = [s \in LiveSlots |-> f.counters[s]]]
              /\ UNCHANGED <<report, pc>>
         ELSE /\ \E r \in Reports(e[t], m[t], f.counters) :
                    report' = Set(report, t, r)
              /\ calls' = Set(calls, t,
                              LibCall(LibCall(LibCall(f, "printf"), "setlocale"),
                                      "free").calls)
              /\ ghost' = [ghost EXCEPT
                             ![t].after = [s \in LiveSlots |-> f.counters[s]],
                             ![t].finishes = @ + 1]
              /\ pc' = Set(pc, t, "finished")
              /\ UNCHANGED proc
    /\ UNCHANGED <<e, m, cpu, refuses, hw>>

SkFinishMeasurement(t) ==
    /\ proc = "running" /\ pc[t] = "measured"
    /\ FinishBody(t)
    /\ UNCHANGED <<initialized, exit_msg, resvars>>

\* sk_finish_measurement(m) on a session that sk_finish_measurement has
\* already freed: a use after free, which either faults or runs the function
\* again on the stale contents of *m
SkFinishMeasurementAgain(t) ==
    /\ proc = "running" /\ pc[t] = "finished"
    /\ ghost[t].finishes < MaxFinishes
    /\ \E outcome \in {"fault", "runs"} :
         IF outcome = "fault"
         THEN /\ proc' = "crashed"
              /\ UNCHANGED <<pc, e, m, report, kernvars, logvars>>
         ELSE FinishBody(t)
    /\ UNCHANGED <<initialized, exit_msg, resvars>>

(***************************************************************************)
(* kpc_demo.c: lib_init, lib_deinit and main.  events_create, events_push, *)
(* start_measurement, finish_measurement and events_destroy are the same   *)
(* code as their sk_ namesakes, without the assert.                        *)
(***************************************************************************)
\* the resolver's statics while lib_init runs, and the calls it makes
LibFrame ==
    [lib |-> lib, impl |-> impl, dl |-> dl, calls |-> << >>, failed |-> {}]

\* a lib_deinit that closes the handles and leaves the flags as they are
LibDeinitKeepingFlags(st) ==
    LET held == {mod \in Modules :
                   \/ mod = "kperf" /\ st.lib.handle_kperf # NULL
                   \/ mod = "kperfdata" /\ st.lib.handle_kperfdata # NULL}
    IN [st EXCEPT
          !.lib = [@ EXCEPT !.handle_kperf = NULL, !.handle_kperfdata = NULL],
          !.dl = [mod \in Modules |->
                     st.dl[mod] - (IF mod \in held THEN 1 ELSE 0)],
          !.impl = {},
          !.calls = @ \o Repeat("dlclose", Cardinality(held))]

\* lib_deinit(): flags cleared, both handles closed and set to NULL, every
\* function pointer set to NULL
LibDeinit(st) ==
    LET held == {mod \in Modules :
                   \/ mod = "kperf" /\ st.lib.handle_kperf # NULL
                   \/ mod = "kperfdata" /\ st.lib.handle_kperfdata # NULL}
    IN [st EXCEPT
          !.lib = [@ EXCEPT !.inited = FALSE, !.has_err = FALSE,
                            !.handle_kperf = NULL, !.handle_kperfdata = NULL],
          !.dl = [mod \in Modules |->
                     st.dl[mod] - (IF mod \in held THEN 1 ELSE 0)],
          !.impl = {},
          !.calls = @ \o Repeat("dlclose", Cardinality(held))]

\* a return_err() that leaves what was loaded and bound as it is
ReturnErrKeeping(st) ==
    [st EXCEPT !.lib = [@ EXCEPT !.inited = TRUE, !.has_err = TRUE]]
\* return_err(): lib_deinit(); lib_inited = true; lib_has_err = true;
ReturnErr(st) ==
    LET d == LibDeinit(st)
    IN [d EXCEPT !.lib = [@ EXCEPT !.inited = TRUE, !.has_err = TRUE]]

\* dlopen of one framework into its handle, with the message on failure
LibOpen(st, env, mod) ==
    LET found == mod \in env.modules
        h == IF found THEN mod ELSE NULL
    IN [st EXCEPT
          !.lib = IF mod = "kperf"
                  THEN [@ EXCEPT !.handle_kperf = h,
                                 !.err_msg = IF found THEN @ ELSE "no_kperf"]
                  ELSE [@ EXCEPT !.handle_kperfdata = h,
                                 !.err_msg = IF found THEN @ ELSE "no_kperfdata"],
          !.dl = [@ EXCEPT ![mod] = @ + (IF found THEN 1 ELSE 0)],
          !.calls = @ \o (IF found THEN << "dlopen" >>
                          ELSE << "dlopen", "snprintf" >>),
          !.failed = IF found THEN @ ELSE @ \cup {"dlopen"}]

\* the dlsym loop over one table: stops at the missing symbol
LibBind(st, env, table) ==
    IF env.missing \in Range(table)
    THEN [st EXCEPT
            !.impl = @ \cup Before(table, env.missing),
            !.lib = [@ EXCEPT !.err_msg = "missing_symbol"],
            !.calls = @ \o Repeat("dlsym", IndexOf(table, env.missing))
                        \o << "snprintf" >>,
            !.failed = @ \cup {"dlsym"}]
    ELSE [st EXCEPT !.impl = @ \cup Range(table),
                    !.calls = @ \o Repeat("dlsym", Len(table))]

\* lib_init() past its guard: a resolution that ends in return_err() at the
\* first framework or symbol that is missing
LibInitResolve(st, env) ==
    LET s1 == LibOpen(st, env, "kperf") IN
    IF s1.failed # {} THEN ReturnErr(s1)
    ELSE LET s2 == LibOpen(s1, env, "kperfdata") IN
    IF s2.failed # {} THEN ReturnErr(s2)
    ELSE LET s3 == LibBind(s2, env, KPERF_SYMBOLS) IN
    IF s3.failed # {} THEN ReturnErr(s3)
    ELSE LET s4 == LibBind(s3, env, KPERFDATA_SYMBOLS) IN
    IF s4.failed # {} THEN ReturnErr(s4)
    ELSE [s4 EXCEPT !.lib = [@ EXCEPT !.inited = TRUE, !.has_err = FALSE]]

\* a lib_init that resolves again when the earlier resolution had failed
LibInitRetrying(st, env) ==
    IF st.lib.inited /\ ~st.lib.has_err THEN st
    ELSE LibInitResolve([st EXCEPT !.lib = [@ EXCEPT !.inited = FALSE,
                                                     !.has_err = FALSE]], env)
\* if (lib_inited) return !lib_has_err;
LibInitRun(st, env) ==
    IF st.lib.inited THEN st ELSE LibInitResolve(st, env)

\* lib_init() as main calls it (the result is not looked at), or called again
LibInit(t) ==
    /\ proc = "running" /\ pc[t] \in {"demo_main", "demo_inited"}
    /\ \E env \in InitOutcomes :
       \E r \in {LibInitRun(LibFrame, env)} :
         /\ lib' = r.lib
         /\ impl' = r.impl
         /\ dl' = r.dl
         /\ calls' = Set(calls, t, r.calls)
         /\ failed' = Set(failed, t, r.failed)
    /\ pc' = Set(pc, t, "demo_inited")
    /\ UNCHANGED <<initialized, proc, exit_msg, e, m, report, kernvars, ghost>>

\* lib_deinit() called on its own, by code of kpc_demo.c that tears the
\* resolver down; main is then where it was before its lib_init()
LibDeinitCall(t) ==
    /\ proc = "running" /\ pc[t] \in {"demo_main", "demo_inited"}
    /\ \E r \in {LibDeinit(LibFrame)} :
         /\ lib' = r.lib
         /\ impl' = r.impl
         /\ dl' = r.dl
         /\ calls' = Set(calls, t, r.calls)
         /\ failed' = Set(failed, t, r.failed)
    /\ pc' = Set(pc, t, "demo_main")
    /\ UNCHANGED <<initialized, proc, exit_msg, e, m, report, kernvars, ghost>>

\* main: if (kpc_force_all_ctrs_get(NULL) != 0) { printf(...); return 1; }
\* a call through a pointer that is NULL faults
DemoProbe(t) ==
    /\ proc = "running" /\ pc[t] = "demo_inited"
    /\ IF "kpc_force_all_ctrs_get" \notin impl
       THEN /\ proc' = "crashed"
            /\ calls' = Set(calls, t, << "kpc_force_all_ctrs_get" >>)
            /\ UNCHANGED <<exit_msg, pc, failed>>
       ELSE /\ calls' = Set(calls, t,
                            IF ProbeDenied
                            THEN << "kpc_force_all_ctrs_get", "printf" >>
                            ELSE << "kpc_force_all_ctrs_get" >>)
            /\ failed' = Set(failed, t,
                             IF ProbeDenied
                             THEN {"kpc_force_all_ctrs_get"} ELSE {})
            /\ IF ProbeDenied
               THEN /\ proc' = "exited"
                    /\ exit_msg' = [kind |-> "permission_denied",
                                    name |-> NULL, index |-> 0]
                    /\ UNCHANGED pc
               ELSE /\ pc' = Set(pc, t, "main")
                    /\ UNCHANGED <<proc, exit_msg>>
    /\ UNCHANGED <<initialized, resvars, e, m, report, kernvars, ghost>>

\* start_measurement(events) of kpc_demo.c
StartMeasurement(t) ==
    /\ proc = "running" /\ pc[t] = "building"
    /\ StartBody(t)
    /\ UNCHANGED <<initialized, resvars, e, report>>

(***************************************************************************)
(* Specifications.                                                         *)
(***************************************************************************)
Step(t) ==
    \/ SkInit(t)
    \/ SkEventsCreate(t)
    \/ SkEventsPush(t)
    \/ SkStartMeasurement(t)
    \/ Work(t)
    \/ SkFinishMeasurement(t)
    \/ SkEventsDestroy(t)

\* one thread that uses the library as example.c does, round after round
Next == Step(Main)
Spec == Init /\ [][Next]_vars

\* the same thread with a caller that may finish a session twice, or push
\* onto the list of a session in progress
NextMisuse ==
    \/ Step(Main)
    \/ SkFinishMeasurementAgain(Main)
    \/ SkEventsPushLate(Main)
SpecMisuse == Init /\ [][NextMisuse]_vars

\* a caller that builds a list and keeps pushing onto it
NextPush ==
    \/ SkEventsCreate(Main)
    \/ SkEventsPush(Main)
    \/ SkEventsPushMore(Main)
SpecPush == Init /\ [][NextPush]_vars

\* the library on a CPU with counters beyond slot KPC_MAX_COUNTERS - 1
SpecWide == InitWide /\ [][Next]_vars

\* two threads of one process, each using the library as example.c does,
\* on a kernel that refuses nothing and whose counters nobody else holds;
\* the main thread calls sk_init until the library is initialized
InitConc == Init /\ refuses = {} /\ owner = "none"
Round(t) ==
    \/ SkEventsCreate(t)
    \/ SkEventsPush(t)
    \/ SkStartMeasurement(t)
    \/ Work(t)
    \/ SkFinishMeasurement(t)
    \/ SkEventsDestroy(t)
NextConc ==
    \/ ~initialized /\ SkInit(Main)
    \/ \E t \in Threads : Round(t)
SpecConc == InitConc /\ [][NextConc]_vars

\* kpc_demo.c: main, with callers that may call lib_init again
InitDemo == InitState("demo_main") /\ cpu = "listed"
NextDemo ==
    \/ LibInit(Main)
    \/ DemoProbe(Main)
    \/ SkEventsCreate(Main)
    \/ SkEventsPush(Main)
    \/ StartMeasurement(Main)
    \/ Work(Main)
    \/ SkFinishMeasurement(Main)
    \/ SkEventsDestroy(Main)
SpecDemo == InitDemo /\ [][NextDemo]_vars

\* the resolver of kpc_demo.c with callers of lib_init and of lib_deinit
NextTeardown == LibInit(Main) \/ LibDeinitCall(Main)
SpecTeardown == InitDemo /\ [][NextTeardown]_vars

(***************************************************************************)
(* Properties.                                                             *)
(***************************************************************************)
\* how often call c occurs in a call record
Count(seq, c) == Cardinality({k \in DOMAIN seq : seq[k] = c})
Last(seq) == seq[Len(seq)]
\* entry s of a snapshot buffer; the entries past the CPU's counters are 0
At(snap, s) == IF s \in LiveSlots THEN snap[s] ELSE 0
\* the amount a counter of this width advanced by to get from before to after
WrapDiff(after, before) ==
    CHOOSE x \in 0 .. (Mod - 1) : (before + x) % Mod = after

\* C1: once sk_finish_measurement has returned, counting is off system-wide
\* and for the thread, and the task does not hold the counters
C1_FinishedAllDisabled ==
    pc[Main] = "finished" =>
        /\ counting = {}
        /\ thread_counting[Main] = {}
        /\ owner # "task"

\* C2: the acquire of sk_start_measurement and the release of
\* sk_finish_measurement alternate: outside a session the task does not hold
\* the counters, so unless another owner holds them every
\* sk_start_measurement, in whatever round, acquires them
C2_AcquireReleaseAlternate ==
    /\ pc[Main] \in {"main", "building", "finished"} => owner # "task"
    /\ (pc[Main] \in {"armed", "measured"} /\ owner # "other") =>
           owner = "task"
    /\ (pc[Main] = "armed" /\ owner # "other") =>
           "kpc_force_all_ctrs_set" \notin failed[Main]
C2_Witness ==
    /\ pc[Main] = "armed"
    /\ owner = "task"
    /\ "kpc_force_all_ctrs_set" \notin failed[Main]
    /\ \E s \in LiveSlots : ghost[Main].before[s] # 0

\* C3: when kpc_set_config or a counting enable fails in
\* sk_start_measurement, the counters are released again and no counting is
\* left on
C3_ArmFailureRolledBack ==
    (pc[Main] = "armed" /\ failed[Main] \cap KpcSetCalls # {}) =>
        /\ owner # "task"
        /\ counting = {}
        /\ thread_counting[Main] = {}

\* C4: when kpc_force_all_ctrs_set(1) fails, sk_start_measurement does not
\* go on to hand out an armed session
C4_AcquireFailureStops ==
    pc[Main] = "armed" => "kpc_force_all_ctrs_set" \notin failed[Main]

\* C5: kpc_get_thread_counters is the last call of sk_start_measurement, made
\* once, and the before snapshot it stored is the thread's accumulations at
\* the moment the caller's work begins
C5_BeforeSnapshotLast ==
    pc[Main] = "armed" =>
        /\ Last(calls[Main]) = "kpc_get_thread_counters"
        /\ Count(calls[Main], "kpc_get_thread_counters") = 1
        /\ \A s \in LiveSlots : m[Main].counters[s] = hw[Main][s]
C5_Witness ==
    /\ pc[Main] = "armed"
    /\ thread_counting[Main] # {}
    /\ Len(calls[Main]) > 5
    /\ Last(calls[Main]) = "kpc_get_thread_counters"

\* C6: kpc_get_thread_counters is the first call of sk_finish_measurement,
\* ahead of the calls that stop counting and of the output, and the after
\* snapshot is the thread's accumulations at the end of the caller's work
C6_AfterSnapshotFirst ==
    pc[Main] = "finished" =>
        /\ calls[Main][1] = "kpc_get_thread_counters"
        /\ Count(calls[Main], "kpc_get_thread_counters") = 1
        /\ ghost[Main].after = hw[Main]
C6_Witness ==
    /\ pc[Main] = "finished"
    /\ calls[Main][1] = "kpc_get_thread_counters"
    /\ "printf" \in {calls[Main][k] : k \in DOMAIN calls[Main]}
    /\ ghost[Main].after # ghost[Main].before

\* C7: the k-th reported delta is after[map[k]] - before[map[k]] modulo the
\* counter width, for the before snapshot, the after snapshot and the
\* counter map of this session
C7_DeltaFormula ==
    pc[Main] = "finished" =>
        \A k \in DOMAIN report[Main] :
            report[Main][k].diff =
                WrapDiff(At(ghost[Main].after, ghost[Main].map[k]),
                         At(ghost[Main].before, ghost[Main].map[k]))
C7_Witness ==
    /\ pc[Main] = "finished"
    /\ \E k \in DOMAIN report[Main] :
         /\ At(ghost[Main].after, ghost[Main].map[k])
              < At(ghost[Main].before, ghost[Main].map[k])
         /\ report[Main][k].diff > 0

\* C8: the report has one line per pushed event, and its k-th line carries
\* the display name of the k-th push
C8_ReportOrder ==
    pc[Main] = "finished" =>
        /\ Len(report[Main]) = Len(ghost[Main].names)
        /\ \A k \in DOMAIN report[Main] :
               report[Main][k].name = ghost[Main].names[k]
C8_Witness ==
    /\ pc[Main] = "finished"
    /\ Len(report[Main]) = MaxEvents
    /\ report[Main][1].name # report[Main][2].name

\* C9: sk_finish_measurement takes effect on a session at most once
C9_FinishOnce == ghost[Main].finishes <= 1

\* C10: a lookup that finds no event ends sk_start_measurement at that
\* request, with that request's display name in the message and no lookup
\* or addition of a later request; a session is only handed out when every
\* lookup found its event
C10_NotFoundStopsBuild ==
    /\ (proc = "exited" /\ exit_msg.kind = "EventNotFound") =>
           /\ exit_msg.name = ghost[Main].names[exit_msg.index + 1]
           /\ "kpep_db_event" \in failed[Main]
           /\ Count(calls[Main], "kpep_db_event") = exit_msg.index + 1
           /\ Count(calls[Main], "kpep_config_add_event") = exit_msg.index
           /\ Last(calls[Main]) = "exit"
    /\ pc[Main] = "armed" =>
           /\ "kpep_db_event" \notin failed[Main]
           /\ Count(calls[Main], "kpep_db_event") = e[Main].count
C10_Witness ==
    /\ proc = "exited"
    /\ exit_msg.kind = "EventNotFound"
    /\ exit_msg.index = 1
    /\ exit_msg.name = "bogus"
    /\ "kpep_db_create" \notin failed[Main]
    /\ e[Main].count = MaxEvents

\* the calls of sk_start_measurement that touch the counters
HardwareCalls ==
    {"kpc_force_all_ctrs_set", "kpc_set_config", "kpc_set_counting",
     "kpc_set_thread_counting", "kpc_get_thread_counters"}

\* C11: a request whose key is not in the catalog ends in EventNotFound with
\* no call that touches the counters, and leaves the caller running so that
\* it can build again with valid requests
C11_NotFoundRecoverable ==
    exit_msg.kind = "EventNotFound" =>
        /\ Range(calls[Main]) \cap HardwareCalls = {}
        /\ proc = "running"

\* C12: a lib_init that failed has released every framework it loaded and
\* left no function pointer bound; the table of a running process is never
\* partly filled
C12_ResolveAtomic ==
    /\ lib.has_err =>
           /\ impl = {}
           /\ \A mod \in Modules : dl[mod] = 0
           /\ lib.handle_kperf = NULL /\ lib.handle_kperfdata = NULL
    /\ proc = "running" => impl \in {{}, AllSymbols}
    /\ (lib.inited /\ ~lib.has_err) => impl = AllSymbols
C12_Witness ==
    /\ lib.inited /\ lib.has_err
    /\ lib.err_msg = "missing_symbol"
    /\ Count(calls[Main], "dlsym") > Len(KPERF_SYMBOLS)
    /\ Count(calls[Main], "dlclose") = 2
    /\ impl = {}

\* C13: once sk_init has succeeded the table stays complete and each
\* framework stays loaded exactly once, whatever is called afterwards; a
\* further sk_init makes no call at all
C13_ResolveIdempotent ==
    initialized =>
        /\ impl = AllSymbols
        /\ \A mod \in Modules : dl[mod] = 1
        /\ (pc[Main] = "main" /\ "dlopen" \in Range(calls[Main])) =>
               Count(calls[Main], "dlopen") = 2
C13_Witness ==
    /\ initialized
    /\ pc[Main] = "main"
    /\ calls[Main] = << >>
    /\ impl = AllSymbols
    /\ \A mod \in Modules : dl[mod] = 1

\* C14 as stated: after a failed resolve every further lib_init loads the
\* frameworks again
C14_FailedResolveRetried ==
    (pc[Main] = "demo_inited" /\ lib.has_err) =>
        "dlopen" \in Range(calls[Main])
\* C14: a failed lib_init is remembered: from then on every lib_init
\* returns the failure without loading a framework or binding a symbol,
\* whatever the environment would now supply
C14_FailedResolveSticky ==
    [][lib.has_err =>
          /\ lib' = lib
          /\ impl' = impl /\ dl' = dl
          /\ (proc' = "running" /\ pc'[Main] = "demo_inited") =>
                 Range(calls'[Main]) \cap {"dlopen", "dlsym"} = {}]_vars
C14_Witness ==
    /\ pc[Main] = "demo_inited"
    /\ lib.inited /\ lib.has_err
    /\ calls[Main] = << >>
    /\ impl = {}

\* the calls of sk_start_measurement that open the catalog and build the
\* configuration
BuildCalls ==
    {"kpep_db_create", "kpep_config_create", "kpep_config_force_counters",
     "kpep_db_event", "kpep_config_add_event", "kpep_config_kpc_classes",
     "kpep_config_kpc_map", "kpep_config_kpc"}

\* C15: when kpc_force_all_ctrs_get fails, the run gets no further than
\* sk_init: the process ends with the permission message and nothing else,
\* no catalog or configuration call is made and the counters are untouched
C15_ProbeBeforeSetup ==
    /\ "kpc_force_all_ctrs_get" \in refuses =>
           /\ ~initialized
           /\ pc[Main] \in {"main", "building"}
           /\ Range(calls[Main]) \cap (BuildCalls \cup HardwareCalls) = {}
           /\ owner # "task" /\ counting = {}
           /\ \A t \in Threads : thread_counting[t] = {}
           /\ \A s \in ConfigRegs : kpc_config[s] = 0
    /\ exit_msg.kind = "permission_denied" <=>
           (proc = "exited" /\ "kpc_force_all_ctrs_get" \in failed[Main])
C15_Witness ==
    /\ proc = "exited"
    /\ exit_msg.kind = "permission_denied"
    /\ impl = AllSymbols
    /\ Last(calls[Main]) = "exit"
    /\ ~initialized

\* C16: neither sk_init nor sk_start_measurement ends the process: whatever
\* fails, the caller is still running afterwards
C16_NoUnilateralExit == proc = "running"

\* C17: the EventNotFound outcome is given only for a key that is absent
\* from an opened catalog, never for a lookup that failed for another reason
C17_NotFoundDistinct ==
    exit_msg.kind = "EventNotFound" =>
        /\ e[Main].internal_names[exit_msg.index + 1] \notin Catalog
        /\ "kpep_db_create" \notin failed[Main]

\* C18: when a catalog or configuration call of sk_start_measurement has
\* failed, no session is armed
C18_BuildFailureStops ==
    pc[Main] = "armed" => failed[Main] \cap BuildCalls = {}

\* C19: no reported delta is negative, and for a counter that did not wrap
\* in the window (after >= before) the delta is the plain difference
\* after - before
C19_DeltaNonNegative ==
    pc[Main] = "finished" =>
        \A k \in DOMAIN report[Main] :
            LET after == At(ghost[Main].after, ghost[Main].map[k])
                before == At(ghost[Main].before, ghost[Main].map[k])
            IN /\ report[Main][k].diff >= 0
               /\ after >= before => report[Main][k].diff = after - before
C19_Witness ==
    /\ pc[Main] = "finished"
    /\ \E k \in DOMAIN report[Main] :
         /\ At(ghost[Main].after, ghost[Main].map[k])
              > At(ghost[Main].before, ghost[Main].map[k])
         /\ report[Main][k].diff
              = At(ghost[Main].after, ghost[Main].map[k])
                  - At(ghost[Main].before, ghost[Main].map[k])

\* the calls of a call record that touch the counters, in the order made
HardwareOrder(seq) == SelectSeq(seq, LAMBDA c : c \in HardwareCalls)

\* C20: sk_start_measurement acquires the counters, programs them, enables
\* system-wide counting, enables thread counting and reads the snapshot, in
\* this order, and counting is on at either scope only while the task holds
\* the counters and the registers have been programmed
C20_ArmOrder ==
    /\ pc[Main] = "armed" =>
           HardwareOrder(calls[Main]) =
               << "kpc_force_all_ctrs_set", "kpc_set_config",
                  "kpc_set_counting", "kpc_set_thread_counting",
                  "kpc_get_thread_counters" >>
    /\ (counting # {} \/ thread_counting[Main] # {}) =>
           /\ owner = "task"
           /\ "kpc_set_config" \notin refuses

\* C21: sk_finish_measurement stops counting, then releases the counters,
\* and only then prints and computes: when it has returned, or has faulted
\* in the loop that computes the deltas, nothing counts for the thread and
\* the task does not hold the counters, and both calls come ahead of the
\* first output
C21_FinishOrder ==
    (pc[Main] = "finished" \/ proc = "crashed") =>
        /\ IndexOf(calls[Main], "kpc_set_counting")
             < IndexOf(calls[Main], "kpc_force_all_ctrs_set")
        /\ \A k \in DOMAIN calls[Main] :
               calls[Main][k] \in {"printf", "setlocale", "free"} =>
                   k > IndexOf(calls[Main], "kpc_force_all_ctrs_set")
        /\ counting = {}
        /\ \A s \in LiveSlots : ~Counts(Main, s)
        /\ owner # "task"
C21_Witness ==
    /\ proc = "crashed"
    /\ pc[Main] = "measured"
    /\ "kpc_force_all_ctrs_set" \notin failed[Main]
    /\ "kpc_set_counting" \notin failed[Main]
    /\ "printf" \in Range(calls[Main])
    /\ thread_counting[Main] # {}
    /\ owner = "none"
    /\ counting = {}

\* C22: a session that was armed has a slot for every request: no add of an
\* event was refused on the way, and entry i of the slot map is a counter of
\* the class of the i-th requested event
C22_SlotMapComplete ==
    pc[Main] = "armed" =>
        /\ "kpep_config_add_event" \notin failed[Main]
        /\ \A k \in 1 .. e[Main].count :
               SlotClass(ghost[Main].map[k]) = ClassOf(e[Main].internal_names[k])

\* C24: when kpep_config_kpc fails, the register buffer it did not fill is
\* never handed to kpc_set_config
C24_UnfilledRegsNotProgrammed ==
    "kpep_config_kpc" \in failed[Main] =>
        "kpc_set_config" \notin Range(calls[Main])

\* C26: every run of sk_start_measurement, whether it arms a session or
\* stops at an unknown event, calls kpep_config_force_counters exactly once,
\* after kpep_config_create and before the first kpep_config_add_event; a
\* run over the empty list makes the call as well
C26_ForceCountersOnce ==
    (pc[Main] = "armed" \/ (proc = "exited" /\ exit_msg.kind = "EventNotFound")) =>
        /\ Count(calls[Main], "kpep_config_force_counters") = 1
        /\ Count(calls[Main], "kpep_config_create") = 1
        /\ IndexOf(calls[Main], "kpep_config_create")
             < IndexOf(calls[Main], "kpep_config_force_counters")
        /\ \A k \in DOMAIN calls[Main] :
               calls[Main][k] = "kpep_config_add_event" =>
                   k > IndexOf(calls[Main], "kpep_config_force_counters")
C26_Witness ==
    /\ pc[Main] = "armed"
    /\ e[Main].count = MaxEvents
    /\ Count(calls[Main], "kpep_config_add_event") = MaxEvents
    /\ "kpep_config_force_counters" \notin failed[Main]
    /\ Count(calls[Main], "kpep_config_force_counters") = 1

\* C27: every run of sk_start_measurement, whether it arms a session or
\* stops at an unknown event, frees the configuration once and then the
\* database once, makes no kperfdata call after that, and touches the
\* counters only after both were freed
C27_BuildReleasesHandles ==
    (pc[Main] = "armed" \/ (proc = "exited" /\ exit_msg.kind = "EventNotFound")) =>
        /\ Count(calls[Main], "kpep_config_free") = 1
        /\ Count(calls[Main], "kpep_db_free") = 1
        /\ IndexOf(calls[Main], "kpep_config_free")
             < IndexOf(calls[Main], "kpep_db_free")
        /\ \A k \in DOMAIN calls[Main] :
               /\ calls[Main][k] \in Range(KPERFDATA_SYMBOLS) =>
                      k <= IndexOf(calls[Main], "kpep_db_free")
               /\ calls[Main][k] \in HardwareCalls =>
                      k > IndexOf(calls[Main], "kpep_db_free")

\* C25: every call the program makes through one of the kpc_* or kpep_*
\* pointers is a call through a pointer that the resolver has bound
C25_CallsOnlyBound ==
    \A c \in Range(calls[Main]) : c \in AllSymbols => c \in impl

\* C29: the report of sk_finish_measurement has one line per event the list
\* held when sk_start_measurement took it, under the names it held then,
\* whatever the caller pushed onto the list in between
C29_ListFixedAtStart ==
    pc[Main] = "finished" =>
        /\ Len(report[Main]) = Len(ghost[Main].map)
        /\ \A k \in DOMAIN report[Main] :
               k <= Len(ghost[Main].names)
               /\ report[Main][k].name = ghost[Main].names[k]

\* C28: whatever the caller pushes, the count of a list stays within
\* KPC_MAX_COUNTERS and no push stores a name outside the two arrays of
\* KPC_MAX_COUNTERS entries, so no push faults
C28_PushWithinArrays ==
    /\ proc # "crashed"
    /\ e[Main].count <= KPC_MAX_COUNTERS
    /\ Len(e[Main].human_readable_names) = e[Main].count
    /\ Len(e[Main].internal_names) = e[Main].count

\* C30: while a thread is between its sk_start_measurement and its own
\* sk_finish_measurement, the task holds the counters and the classes of the
\* thread's session are counting system-wide, whatever the other thread does
\* (on a kernel that refuses nothing and whose counters nobody else holds)
C30_WindowsIndependent ==
    \A t \in Threads :
        (pc[t] \in {"armed", "measured"} /\ refuses = {} /\ owner # "other") =>
            /\ owner = "task"
            /\ m[t].classes \subseteq counting

\* C23: every entry of the counter map that sk_finish_measurement uses as an
\* index into the two snapshot arrays is below KPC_MAX_COUNTERS, and no
\* finish reads outside of the arrays and faults
C23_SlotsWithinCapacity ==
    /\ proc # "crashed"
    /\ pc[Main] \in {"armed", "measured", "finished"} =>
           \A k \in 1 .. e[Main].count :
               m[Main].counter_map[k - 1] < KPC_MAX_COUNTERS

\* C31: a framework is unloaded only by lib_deinit; a lib_deinit leaves both
\* handles and every function pointer NULL, no framework loaded, and
\* lib_inited and lib_has_err false, so that the lib_init after it opens the
\* frameworks again; a lib_init that finds lib_inited set opens nothing and
\* changes nothing; no framework is ever held loaded twice
C31_TeardownResets ==
    [][/\ (\E mod \in Modules : dl'[mod] < dl[mod]) =>
              /\ "dlclose" \in Range(calls'[Main])
              /\ impl' = {}
              /\ lib'.handle_kperf = NULL /\ lib'.handle_kperfdata = NULL
       /\ pc'[Main] = "demo_main" =>
              /\ lib'.handle_kperf = NULL /\ lib'.handle_kperfdata = NULL
              /\ impl' = {}
              /\ ~lib'.inited /\ ~lib'.has_err
              /\ \A mod \in Modules : dl'[mod] = 0
              /\ Count(calls'[Main], "dlclose")
                   = Cardinality({mod \in Modules : dl[mod] > 0})
       /\ (pc[Main] = "demo_main" /\ pc'[Main] = "demo_inited") =>
              /\ calls'[Main] # << >>
              /\ calls'[Main][1] = "dlopen"
              /\ lib'.inited
       /\ (lib.inited /\ pc'[Main] = "demo_inited") =>
              /\ "dlopen" \notin Range(calls'[Main])
              /\ dl' = dl /\ impl' = impl /\ lib' = lib
       /\ \A mod \in Modules : dl'[mod] <= 1
      ]_vars
C31_Witness ==
    /\ pc[Main] = "demo_main"
    /\ calls[Main] = << "dlclose", "dlclose" >>
    /\ impl = {}
    /\ lib = [NoLib EXCEPT !.err_msg = lib.err_msg]
    /\ \A mod \in Modules : dl[mod] = 0
====
